---- MODULE Spec2Model ----
(***************************************************************************)
(* EyeballTracker (src/src/eyeball_tracker.py): the background tracking    *)
(* loop, its two-stage smoothing, the get_direction readers and cleanup.   *)
(*                                                                         *)
(* Floats are fixed-point integers: Scale units make 1.0.  A statement of  *)
(* the tracking thread is one step; get_direction is two attribute loads.  *)
(***************************************************************************)
EXTENDS Integers, Sequences, FiniteSets, TLC

VARIABLES
    cap_open,       \* self.cap is opened (cv2.VideoCapture not yet released)
    release_calls,  \* number of calls of self.cap.release()
    running,        \* self.running
    dx_history,     \* self.dx_history (deque, oldest first)
    dy_history,     \* self.dy_history
    raw_dx,         \* self.raw_dx
    raw_dy,         \* self.raw_dy
    dx,             \* self.dx
    dy,             \* self.dy
    loopPc,         \* position of the tracking thread in _tracking_loop
    ret,            \* local ret of _tracking_loop
    target,         \* locals (dx, dy) of _tracking_loop = (target_dx, target_dy)
    rdPc,           \* position of each get_direction caller
    rdDx,           \* the self.dx a caller has loaded
    rdResult,       \* the last pair a caller got back (<<>> before its first call)
    clPc,           \* position of the thread that calls cleanup
    cleanups,       \* number of cleanup calls started
    ticks,          \* history: loop iterations started
    events,         \* history: failed reads, absent detections and changes of the
                    \* detected position so far
    pushed,         \* history: every present sample, in arrival order
    published,      \* history: (dx, dy) after each completed update, and the initial pair
    snap,           \* history: tracker state when the current tick started
    bad_read,       \* history: cap.read() was called on a released capture
    late_writes     \* history: writes of dx or dy made with running = False

vars == <<cap_open, release_calls, running, dx_history, dy_history, raw_dx, raw_dy,
          dx, dy, loopPc, ret, target, rdPc, rdDx, rdResult, clPc, cleanups,
          ticks, events, pushed, published, snap, bad_read, late_writes>>

capVars    == <<cap_open, release_calls>>
histVars   == <<dx_history, dy_history>>
rawVars    == <<raw_dx, raw_dy>>
readerVars == <<rdPc, rdDx, rdResult>>
cleanVars  == <<clPc, cleanups>>

----------------------------------------------------------------------------
(* Bounds of the model *)

MaxTicks    == 5    \* loop iterations, with readers and cleanup running
MaxTicksSeq == 22   \* loop iterations, tracking thread alone
MaxEvents   == 2    \* failed reads, absent detections, changes of the detected position
MaxCleanups == 2    \* calls of cleanup
NumReaders  == 1    \* concurrent get_direction callers
ExpTerms    == 8    \* terms of the series that evaluates exp
MaxTicksRamp == 8   \* loop iterations while the detected position ramps up
RampSteps   == 10   \* positions of the ramp: 0.1, 0.2, ...

Readers == 1..NumReaders

(* Fixed point: Scale units make 1.0; weights carry WScale units per 1.0 *)
Scale  == 10 ^ 3
WScale == 10 ^ 3

(* None: a value no detection returns *)
None == 0 - 9 * Scale

(* The (dx, dy) pairs detect_face_position returns when it finds a face *)
Samples == { <<Scale, 0 - Scale>>, <<0 - (2 * Scale) \div 5, (3 * Scale) \div 5>> }

----------------------------------------------------------------------------
(* Program constants *)

history_size     == 20
MinSamples       == 5
smoothing_factor == (20 * Scale) \div 100

----------------------------------------------------------------------------
(* Pure parts of _smooth_direction *)

(* Mutant: a full deque drops its newest element instead of its oldest *)
Append_deque_newest(h, x) ==
    IF Len(h) >= history_size THEN Append(SubSeq(h, 1, Len(h) - 1), x) ELSE Append(h, x)

(* deque(maxlen = history_size).append *)
Append_deque(h, x) ==
    IF Len(h) >= history_size THEN Append(Tail(h), x) ELSE Append(h, x)

(* np.exp(p / q) in WScale units, by its series *)
RECURSIVE ExpSeries(_, _, _, _, _)
ExpSeries(p, q, k, term, acc) ==
    IF k > ExpTerms THEN acc
    ELSE LET t == (term * p) \div (q * k)
         IN  ExpSeries(p, q, k + 1, t, acc + t)

Exp(p, q) == ExpSeries(p, q, 1, WScale, WScale)

(* np.exp(np.linspace(0, 1, n)): position i (1-based) holds exp((i-1)/(n-1)) *)
RECURSIVE ExpRampTo(_, _)
ExpRampTo(n, i) ==
    IF i = 0 THEN <<>>
    ELSE Append(ExpRampTo(n, i - 1), Exp(i - 1, IF n = 1 THEN 1 ELSE n - 1))

(* Mutant: the ramp runs from the newest position down to the oldest *)
RECURSIVE ExpRampDown(_, _)
ExpRampDown(n, i) ==
    IF i = 0 THEN <<>>
    ELSE Append(ExpRampDown(n, i - 1), Exp(n - i, IF n = 1 THEN 1 ELSE n - 1))

ExpRamp_reversed(n) == ExpRampDown(n, n)

ExpRamp(n) == ExpRampTo(n, n)

RECURSIVE SeqSum(_)
SeqSum(s) == IF s = <<>> THEN 0 ELSE Head(s) + SeqSum(Tail(s))

RECURSIVE DivideTo(_, _, _)
DivideTo(w, total, i) ==
    IF i = 0 THEN <<>>
    ELSE Append(DivideTo(w, total, i - 1), (w[i] * WScale) \div total)

(* line 98: weights / weights.sum() *)
Normalize(w) == DivideTo(w, SeqSum(w), Len(w))

(* lines 97-98: the weights for a history of n samples *)
Weights(n) == Normalize(ExpRamp(n))

(* The weights depend on n alone: one evaluation per n *)
WeightTable == [n \in 1..history_size |-> Weights(n)]

RECURSIVE Dot(_, _, _)
Dot(a, w, i) == IF i = 0 THEN 0 ELSE a[i] * w[i] + Dot(a, w, i - 1)

(* Mutant: a plain dot product with the weights, not divided by their sum *)
Average_dot(a, w) == Dot(a, w, Len(a)) \div WScale

(* np.average(a, weights = w) = sum(a * w) / sum(w) *)
Average(a, w) == Dot(a, w, Len(a)) \div SeqSum(w)

(* Mutant: the threshold is off by one *)
EnoughSamples_four(h) == Len(h) >= MinSamples - 1

(* len(self.dx_history) >= 5 *)
EnoughSamples(h) == Len(h) >= MinSamples

(* Mutant: the step covers 1 - smoothing_factor of the distance *)
Interpolate_complement(x, raw) == x + ((raw - x) * (Scale - smoothing_factor)) \div Scale

(* Mutant: the step adds a share of raw, not of the distance to raw *)
Interpolate_no_diff(x, raw) == x + (raw * smoothing_factor) \div Scale

(* Mutant: the step has the wrong sign *)
Interpolate_away(x, raw) == x - ((raw - x) * smoothing_factor) \div Scale

(* Mutant: a factor above 1 *)
Interpolate_overshoot(x, raw) == x + ((raw - x) * (Scale + smoothing_factor)) \div Scale

(* x += (raw - x) * self.smoothing_factor *)
Interpolate(x, raw) == x + ((raw - x) * smoothing_factor) \div Scale

TrackerState == <<dx_history, dy_history, raw_dx, raw_dy, dx, dy>>

----------------------------------------------------------------------------
(* __init__ *)

Init ==
    /\ cap_open = TRUE
    /\ release_calls = 0
    /\ running = TRUE
    /\ dx_history = <<>>
    /\ dy_history = <<>>
    /\ raw_dx = 0
    /\ raw_dy = 0
    /\ dx = 0
    /\ dy = 0
    /\ loopPc = "check"
    /\ ret = FALSE
    /\ target = <<None, None>>
    /\ rdPc = [r \in Readers |-> "idle"]
    /\ rdDx = [r \in Readers |-> 0]
    /\ rdResult = [r \in Readers |-> <<>>]
    /\ clPc = "idle"
    /\ cleanups = 0
    /\ ticks = 0
    /\ events = 0
    /\ pushed = <<>>
    /\ published = { <<0, 0>> }
    /\ snap = <<<<>>, <<>>, 0, 0, 0, 0>>
    /\ bad_read = FALSE
    /\ late_writes = 0

----------------------------------------------------------------------------
(* _tracking_loop *)

Terminated == {"done", "crashed"}

(* Mutant: the loop condition ignores self.running *)
LoopCheck_no_stop(limit) ==
    /\ loopPc = "check"
    /\ ticks < limit
    /\ loopPc' = "read"
    /\ ticks' = ticks + 1
    /\ snap' = TrackerState
    /\ UNCHANGED <<capVars, running, histVars, rawVars, dx, dy, ret, target,
                   readerVars, cleanVars, events, pushed, published,
                   bad_read, late_writes>>

(* line 109: while self.running *)
LoopCheck(limit) ==
    /\ loopPc = "check"
    /\ IF running
       THEN /\ ticks < limit
            /\ loopPc' = "read"
            /\ ticks' = ticks + 1
            /\ snap' = TrackerState
       ELSE /\ loopPc' = "done"
            /\ UNCHANGED <<ticks, snap>>
    /\ UNCHANGED <<capVars, running, histVars, rawVars, dx, dy, ret, target,
                   readerVars, cleanVars, events, pushed, published,
                   bad_read, late_writes>>

(* Mutant: the tick goes on to detection whatever ret is *)
LoopRead_no_skip ==
    /\ loopPc = "read"
    /\ \E ok \in BOOLEAN :
          /\ ok => cap_open
          /\ (~ok /\ cap_open) => events < MaxEvents
          /\ ret' = ok
          /\ events' = IF ~ok /\ cap_open THEN events + 1 ELSE events
    /\ loopPc' = "detect"
    /\ bad_read' = (bad_read \/ ~cap_open)
    /\ UNCHANGED <<capVars, running, histVars, rawVars, dx, dy, target,
                   readerVars, cleanVars, ticks, pushed, published,
                   snap, late_writes>>

(* lines 110-111: ret, frame = self.cap.read(); if ret.  A released capture
   gives ret = False. *)
LoopRead ==
    /\ loopPc = "read"
    /\ \E ok \in BOOLEAN :
          /\ ok => cap_open
          /\ (~ok /\ cap_open) => events < MaxEvents
          /\ ret' = ok
          /\ events' = IF ~ok /\ cap_open THEN events + 1 ELSE events
          /\ loopPc' = IF ok THEN "detect" ELSE "sleep"
    /\ bad_read' = (bad_read \/ ~cap_open)
    /\ UNCHANGED <<capVars, running, histVars, rawVars, dx, dy, target,
                   readerVars, cleanVars, ticks, pushed, published,
                   snap, late_writes>>

(* lines 112-113: dx, dy = self.detect_face_position(cv2.flip(frame, 1)).
   The call returns a pair, returns (None, None), or raises; nothing in
   _tracking_loop catches what it raises. *)
LoopDetect ==
    /\ loopPc = "detect"
    /\ \/ /\ loopPc' = "crashed"
          /\ UNCHANGED <<target, events>>
       \/ /\ events < MaxEvents
          /\ target' = <<None, None>>
          /\ events' = events + 1
          /\ loopPc' = "l90"
       \/ \E s \in Samples :
             LET moved == pushed # <<>> /\ s # pushed[Len(pushed)]
             IN  /\ moved => events < MaxEvents
                 /\ target' = s
                 /\ events' = IF moved THEN events + 1 ELSE events
                 /\ loopPc' = "l90"
    /\ UNCHANGED <<capVars, running, histVars, rawVars, dx, dy, ret,
                   readerVars, cleanVars, ticks, pushed, published, snap,
                   bad_read, late_writes>>

(* Mutant: the None test is missing *)
Present_any(t) == TRUE

(* line 90: target_dx is not None *)
Present(t) == t # None

(* Mutant: the interpolation is inside the if: an absent detection ends the tick *)
SmoothAppendDx_skip ==
    /\ loopPc = "l90"
    /\ IF Present(target[1])
       THEN /\ dx_history' = Append_deque(dx_history, target[1])
            /\ loopPc' = "l93"
       ELSE /\ loopPc' = "sleep"
            /\ UNCHANGED dx_history
    /\ UNCHANGED <<capVars, running, dy_history, rawVars, dx, dy, ret, target,
                   readerVars, cleanVars, ticks, events, pushed, published,
                   snap, bad_read, late_writes>>

(* lines 90-92: self.dx_history.append(target_dx) *)
SmoothAppendDx ==
    /\ loopPc = "l90"
    /\ IF Present(target[1])
       THEN /\ dx_history' = Append_deque(dx_history, target[1])
            /\ loopPc' = "l93"
       ELSE /\ loopPc' = "l104"
            /\ UNCHANGED dx_history
    /\ UNCHANGED <<capVars, running, dy_history, rawVars, dx, dy, ret, target,
                   readerVars, cleanVars, ticks, events, pushed, published,
                   snap, bad_read, late_writes>>

(* Mutant: dy_history is a deque without maxlen *)
SmoothAppendDy_plain ==
    /\ loopPc = "l93"
    /\ dy_history' = Append(dy_history, target[2])
    /\ pushed' = Append(pushed, target)
    /\ loopPc' = "l95"
    /\ UNCHANGED <<capVars, running, dx_history, rawVars, dx, dy, ret, target,
                   readerVars, cleanVars, ticks, events, published,
                   snap, bad_read, late_writes>>

(* line 93: self.dy_history.append(target_dy) *)
SmoothAppendDy ==
    /\ loopPc = "l93"
    /\ dy_history' = Append_deque(dy_history, target[2])
    /\ pushed' = Append(pushed, target)
    /\ loopPc' = "l95"
    /\ UNCHANGED <<capVars, running, dx_history, rawVars, dx, dy, ret, target,
                   readerVars, cleanVars, ticks, events, published,
                   snap, bad_read, late_writes>>

(* Mutant: the average leaves out the sample just appended *)
SmoothRawDx_prev ==
    /\ loopPc = "l95"
    /\ IF EnoughSamples(dx_history)
       THEN /\ raw_dx' = Average(SubSeq(dx_history, 1, Len(dx_history) - 1),
                                 WeightTable[Len(dx_history) - 1])
            /\ loopPc' = "l101"
       ELSE /\ loopPc' = "l104"
            /\ UNCHANGED raw_dx
    /\ UNCHANGED <<capVars, running, histVars, raw_dy, dx, dy, ret, target,
                   readerVars, cleanVars, ticks, events, pushed, published,
                   snap, bad_read, late_writes>>

(* lines 95-100: the weights, then self.raw_dx *)
SmoothRawDx ==
    /\ loopPc = "l95"
    /\ IF EnoughSamples(dx_history)
       THEN /\ raw_dx' = Average(dx_history, WeightTable[Len(dx_history)])
            /\ loopPc' = "l101"
       ELSE /\ loopPc' = "l104"
            /\ UNCHANGED raw_dx
    /\ UNCHANGED <<capVars, running, histVars, raw_dy, dx, dy, ret, target,
                   readerVars, cleanVars, ticks, events, pushed, published,
                   snap, bad_read, late_writes>>

(* line 101: self.raw_dy *)
SmoothRawDy ==
    /\ loopPc = "l101"
    /\ raw_dy' = Average(dy_history, WeightTable[Len(dx_history)])
    /\ loopPc' = "l104"
    /\ UNCHANGED <<capVars, running, histVars, raw_dx, dx, dy, ret, target,
                   readerVars, cleanVars, ticks, events, pushed, published,
                   snap, bad_read, late_writes>>

(* line 104: self.dx += (self.raw_dx - self.dx) * self.smoothing_factor *)
SmoothDx ==
    /\ loopPc = "l104"
    /\ dx' = Interpolate(dx, raw_dx)
    /\ late_writes' = IF running THEN late_writes ELSE late_writes + 1
    /\ loopPc' = "l105"
    /\ UNCHANGED <<capVars, running, histVars, rawVars, dy, ret, target,
                   readerVars, cleanVars, ticks, events, pushed, published,
                   snap, bad_read>>

(* line 105: self.dy += (self.raw_dy - self.dy) * self.smoothing_factor *)
SmoothDy ==
    /\ loopPc = "l105"
    /\ dy' = Interpolate(dy, raw_dy)
    /\ published' = published \cup { <<dx, dy'>> }
    /\ late_writes' = IF running THEN late_writes ELSE late_writes + 1
    /\ loopPc' = "sleep"
    /\ UNCHANGED <<capVars, running, histVars, rawVars, dx, ret, target,
                   readerVars, cleanVars, ticks, events, pushed,
                   snap, bad_read>>

(* line 116: time.sleep(0.010) *)
LoopSleep ==
    /\ loopPc = "sleep"
    /\ loopPc' = "check"
    /\ UNCHANGED <<capVars, running, histVars, rawVars, dx, dy, ret, target,
                   readerVars, cleanVars, ticks, events, pushed, published,
                   snap, bad_read, late_writes>>

Loop(limit) ==
    \/ LoopCheck(limit)
    \/ LoopRead
    \/ LoopDetect
    \/ SmoothAppendDx
    \/ SmoothAppendDy
    \/ SmoothRawDx
    \/ SmoothRawDy
    \/ SmoothDx
    \/ SmoothDy
    \/ LoopSleep

----------------------------------------------------------------------------
(* get_direction, line 120: return self.dx, self.dy loads self.dx, then
   self.dy, then builds the pair *)

ReadDx(r) ==
    /\ rdPc[r] = "idle"
    /\ rdDx' = [rdDx EXCEPT ![r] = dx]
    /\ rdPc' = [rdPc EXCEPT ![r] = "dy"]
    /\ UNCHANGED <<capVars, running, histVars, rawVars, dx, dy, loopPc, ret,
                   target, rdResult, cleanVars, ticks, events, pushed,
                   published, snap, bad_read, late_writes>>

(* Mutant: get_direction interpolates once more before it returns *)
ReadDy_smooth(r) ==
    /\ rdPc[r] = "dy"
    /\ rdResult' = [rdResult EXCEPT ![r] = <<rdDx[r], dy>>]
    /\ rdPc' = [rdPc EXCEPT ![r] = "idle"]
    /\ dy' = Interpolate(dy, raw_dy)
    /\ UNCHANGED <<capVars, running, histVars, rawVars, dx, loopPc, ret,
                   target, rdDx, cleanVars, ticks, events, pushed,
                   published, snap, bad_read, late_writes>>

ReadDy(r) ==
    /\ rdPc[r] = "dy"
    /\ rdResult' = [rdResult EXCEPT ![r] = <<rdDx[r], dy>>]
    /\ rdPc' = [rdPc EXCEPT ![r] = "idle"]
    /\ UNCHANGED <<capVars, running, histVars, rawVars, dx, dy, loopPc, ret,
                   target, rdDx, cleanVars, ticks, events, pushed,
                   published, snap, bad_read, late_writes>>

----------------------------------------------------------------------------
(* cleanup *)

(* line 124: self.running = False *)
CleanupStop ==
    /\ clPc = "idle"
    /\ cleanups < MaxCleanups
    /\ cleanups' = cleanups + 1
    /\ running' = FALSE
    /\ clPc' = "l125"
    /\ UNCHANGED <<capVars, histVars, rawVars, dx, dy, loopPc, ret, target,
                   readerVars, ticks, events, pushed, published, snap,
                   bad_read, late_writes>>

(* line 125: self.cap.release() *)
CleanupRelease ==
    /\ clPc = "l125"
    /\ cap_open' = FALSE
    /\ release_calls' = release_calls + 1
    /\ clPc' = "idle"
    /\ UNCHANGED <<running, histVars, rawVars, dx, dy, loopPc, ret, target,
                   readerVars, cleanups, ticks, events, pushed, published,
                   snap, bad_read, late_writes>>

----------------------------------------------------------------------------
(* The tracker with its readers and the cleanup caller *)

Next ==
    \/ Loop(MaxTicks)
    \/ \E r \in Readers : ReadDx(r)
    \/ \E r \in Readers : ReadDy(r)
    \/ CleanupStop
    \/ CleanupRelease

Spec == Init /\ [][Next]_vars

(* The tracking thread and the cleanup caller, without readers (get_direction
   writes nothing either of them reads); the tracking thread is scheduled as
   long as it has a step to take *)
NextStop ==
    \/ Loop(MaxTicks)
    \/ CleanupStop
    \/ CleanupRelease

FairSpec == Init /\ [][NextStop]_vars /\ WF_vars(Loop(MaxTicks))

(* The tracking thread alone, for long runs *)
NextSeq == Loop(MaxTicksSeq)

SeqSpec == Init /\ [][NextSeq]_vars

(* The tracking thread alone in front of a face that drifts: each detection
   returns the position of the one before or the next position of the ramp
   (0.1, -0.1), (0.2, -0.2), ... *)
RampSample(i) == <<(i * Scale) \div 10, 0 - (i * Scale) \div 10>>

RampIndex == IF pushed = <<>> THEN 0 ELSE (pushed[Len(pushed)][1] * 10) \div Scale

(* lines 112-113, with the drifting face *)
LoopDetectRamp ==
    /\ loopPc = "detect"
    /\ \/ /\ loopPc' = "crashed"
          /\ UNCHANGED <<target, events>>
       \/ /\ events < MaxEvents
          /\ target' = <<None, None>>
          /\ events' = events + 1
          /\ loopPc' = "l90"
       \/ \E i \in {RampIndex, RampIndex + 1} :
             /\ i >= 1 /\ i <= RampSteps
             /\ target' = RampSample(i)
             /\ loopPc' = "l90"
             /\ UNCHANGED events
    /\ UNCHANGED <<capVars, running, histVars, rawVars, dx, dy, ret,
                   readerVars, cleanVars, ticks, pushed, published, snap,
                   bad_read, late_writes>>

NextRamp ==
    \/ LoopCheck(MaxTicksRamp)
    \/ LoopRead
    \/ LoopDetectRamp
    \/ SmoothAppendDx
    \/ SmoothAppendDy
    \/ SmoothRawDx
    \/ SmoothRawDy
    \/ SmoothDx
    \/ SmoothDy
    \/ LoopSleep

RampSpec == Init /\ [][NextRamp]_vars

----------------------------------------------------------------------------
(* Properties *)

SeqMin(s) == CHOOSE m \in {s[i] : i \in 1..Len(s)} : \A i \in 1..Len(s) : m <= s[i]
SeqMax(s) == CHOOSE m \in {s[i] : i \in 1..Len(s)} : \A i \in 1..Len(s) : m >= s[i]

(* C1: every pair get_direction returns is the (dx, dy) one completed update
   left behind, or the initial (0.0, 0.0): never dx of one tick with dy of
   another, never a half-done update. *)
PairConsistency ==
    \A r \in Readers : rdResult[r] # <<>> => rdResult[r] \in published

(* C2: the capture is released only after the tracking loop has terminated,
   and the loop never calls cap.read() on a released capture. *)
ShutdownOrdering ==
    /\ ~cap_open => loopPc \in Terminated
    /\ ~bad_read

(* C3: once running is False the loop starts no further tick, it terminates
   if its thread keeps being scheduled, and dx and dy are written at most once
   each (one update) after the flag was set. *)
Cancellation ==
    /\ [](late_writes <= 2)
    /\ [][(~running /\ loopPc = "check") => loopPc' \in {"check", "done"}]_vars
    /\ (~running ~> loopPc \in Terminated)

CancellationWitness ==
    /\ ~running
    /\ loopPc = "done"
    /\ late_writes = 2

(* C4: however many times cleanup is called, the capture is released exactly
   once. *)
ReleasedExactlyOnce ==
    (cleanups >= 1 /\ clPc = "idle") => release_calls = 1

(* C5: no failure inside a tick ends the tracking loop: while running is True
   the loop has not terminated. *)
TickIsolation ==
    running => loopPc \notin Terminated

(* C6: a tick whose cap.read() failed leaves both histories, raw_dx, raw_dy,
   dx and dy as they were when the tick started, and the loop is on its way
   to the next tick. *)
CaptureFailureNoMutation ==
    (loopPc = "sleep" /\ ~ret) => TrackerState = snap

CaptureFailureWitness ==
    /\ loopPc = "sleep"
    /\ ~ret
    /\ Len(dx_history) >= MinSamples
    /\ dx # 0
    /\ dx # raw_dx

(* C7: the history never exceeds history_size and holds exactly the most
   recent min(k, history_size) present samples, oldest first, k being the
   number of present samples so far. *)
BoundedFifo ==
    LET k == Len(pushed)
        m == IF k < history_size THEN k ELSE history_size
    IN  /\ Len(dx_history) <= history_size
        /\ Len(dy_history) <= history_size
        /\ dy_history = [i \in 1..m |-> pushed[k - m + i][2]]
        /\ loopPc # "l93" => dx_history = [i \in 1..m |-> pushed[k - m + i][1]]

BoundedFifoWitness ==
    /\ Len(pushed) > history_size
    /\ Len(dx_history) = history_size
    /\ loopPc = "sleep"
    /\ pushed[1][1] # dx_history[1]

(* C8: a tick whose detection is absent leaves both histories, raw_dx and
   raw_dy unchanged, and every element of the history is a value a
   successful detection returned. *)
AbsentNeverEnters ==
    /\ (loopPc = "sleep" /\ ret /\ target[1] = None) =>
          <<dx_history, dy_history, raw_dx, raw_dy>> = <<snap[1], snap[2], snap[3], snap[4]>>
    /\ \A i \in 1..Len(dx_history) : dx_history[i] \in {s[1] : s \in Samples}
    /\ loopPc # "l93" =>
          \A i \in 1..Len(dy_history) : <<dx_history[i], dy_history[i]>> \in Samples

AbsentWitness ==
    /\ loopPc = "sleep"
    /\ ret
    /\ target[1] = None
    /\ Len(dx_history) >= MinSamples
    /\ dx # snap[5]

(* C9: while the history holds fewer than 5 samples raw_dx and raw_dy are
   still 0.0, and so are dx and dy and every pair get_direction returned. *)
FiveSampleThreshold ==
    Len(dx_history) < MinSamples =>
        /\ raw_dx = 0 /\ raw_dy = 0
        /\ dx = 0 /\ dy = 0
        /\ \A r \in Readers : rdResult[r] \in { <<>>, <<0, 0>> }

FiveSampleWitness ==
    /\ Len(dx_history) = MinSamples - 1
    /\ loopPc = "sleep"
    /\ \E r \in Readers : rdResult[r] = <<0, 0>> /\ rdPc[r] = "idle"

(* C10: with n >= 5 samples in the history the weights are all positive and
   sum to 1 (to within one unit per weight), and raw_dx, raw_dy lie between
   the least and the greatest sample of dx_history, dy_history. *)
ConvexCombination ==
    LET n == Len(dx_history)
        w == WeightTable[n]
    IN  EnoughSamples(dx_history) =>
          /\ \A i \in 1..n : w[i] > 0
          /\ SeqSum(w) <= WScale /\ SeqSum(w) >= WScale - n
          /\ loopPc \notin {"l93", "l95"} =>
                SeqMin(dx_history) <= raw_dx /\ raw_dx <= SeqMax(dx_history)
          /\ loopPc \notin {"l93", "l95", "l101"} =>
                SeqMin(dy_history) <= raw_dy /\ raw_dy <= SeqMax(dy_history)

ConvexWitness ==
    /\ Len(dx_history) = history_size
    /\ loopPc = "sleep"
    /\ SeqMin(dx_history) < raw_dx /\ raw_dx < SeqMax(dx_history)
    /\ SeqMin(dy_history) < raw_dy /\ raw_dy < SeqMax(dy_history)

NonDecreasing(h) == \A i \in 1..(Len(h) - 1) : h[i] <= h[i + 1]

(* C11: the weights strictly increase from the oldest to the newest position,
   so a history of n >= 5 samples that never decreases and is not constant
   has a weighted average strictly above its plain mean; 0.1, 0.2, 0.3, 0.4,
   0.5 gives more than 0.3. *)
WeightingBias ==
    /\ \A n \in MinSamples..history_size :
          \A i \in 1..(n - 1) : WeightTable[n][i] < WeightTable[n][i + 1]
    /\ (/\ loopPc \notin {"l93", "l95"}
        /\ EnoughSamples(dx_history)
        /\ NonDecreasing(dx_history)
        /\ dx_history[1] # dx_history[Len(dx_history)])
          => raw_dx * Len(dx_history) > SeqSum(dx_history)
    /\ (loopPc \notin {"l93", "l95"} /\ dx_history = [i \in 1..5 |-> RampSample(i)[1]])
          => raw_dx > (3 * Scale) \div 10

WeightingBiasWitness ==
    /\ loopPc = "sleep"
    /\ dx_history = [i \in 1..5 |-> RampSample(i)[1]]
    /\ raw_dx > (3 * Scale) \div 10

(* C12: from dx = 0 with raw_dx held at 1.0 three interpolation steps give
   0.2, 0.36, 0.488; every step leaves (1 - 0.20) of the distance to raw,
   to within one fixed-point unit. *)
GeometricConvergence ==
    /\ (loopPc = "sleep" /\ events = 0 /\ raw_dx = Scale) =>
          /\ Len(pushed) = MinSamples     => dx = (2 * Scale) \div 10
          /\ Len(pushed) = MinSamples + 1 => dx = (36 * Scale) \div 100
          /\ Len(pushed) = MinSamples + 2 => dx = (488 * Scale) \div 1000
    /\ loopPc = "l105" =>
          LET rest == Scale * (raw_dx - dx) - (Scale - smoothing_factor) * (raw_dx - snap[5])
          IN  rest >= 0 /\ rest < Scale
    /\ (loopPc = "sleep" /\ ret) =>
          LET rest == Scale * (raw_dy - dy) - (Scale - smoothing_factor) * (raw_dy - snap[6])
          IN  rest >= 0 /\ rest < Scale

GeometricWitness ==
    /\ loopPc = "sleep"
    /\ events = 0
    /\ raw_dx = Scale
    /\ Len(pushed) = MinSamples + 2
    /\ dx = (488 * Scale) \div 1000

(* C13: an interpolation step that starts with raw_dx = dx leaves dx
   unchanged, and likewise for dy. *)
FixedPoint ==
    /\ (loopPc = "l105" /\ snap[5] = raw_dx) => dx = snap[5]
    /\ (loopPc = "sleep" /\ ret /\ snap[6] = raw_dy) => dy = snap[6]

FixedPointWitness ==
    /\ loopPc = "l105"
    /\ snap[5] = raw_dx
    /\ raw_dx # 0
    /\ dx = raw_dx

(* C14: an interpolation step leaves dx between its old value and raw_dx,
   ends included, and dy between its old value and raw_dy. *)
Between(a, x, b) == (a <= x /\ x <= b) \/ (b <= x /\ x <= a)

NoOvershoot ==
    /\ loopPc = "l105" => Between(snap[5], dx, raw_dx)
    /\ (loopPc = "sleep" /\ ret) =>
          Between(snap[5], dx, raw_dx) /\ Between(snap[6], dy, raw_dy)

NoOvershootWitness ==
    /\ loopPc = "sleep"
    /\ ret
    /\ snap[5] < dx /\ dx < raw_dx
    /\ raw_dy < dy /\ dy < snap[6]

(* C15: a tick whose capture succeeded applies the interpolation exactly
   once to dx and to dy, with a present or an absent detection, with or
   without a new weighted average. *)
AdvanceEveryTick ==
    (loopPc = "sleep" /\ ret) =>
        /\ dx = Interpolate(snap[5], raw_dx)
        /\ dy = Interpolate(snap[6], raw_dy)

AdvanceAbsentWitness ==
    /\ loopPc = "sleep"
    /\ ret
    /\ target = <<None, None>>
    /\ raw_dx = snap[3]
    /\ raw_dx # 0
    /\ dx # snap[5] /\ dy # snap[6]

(* C16: only a step of the tracking thread changes the histories, raw_dx,
   raw_dy, dx or dy; a get_direction step changes nothing but the caller's
   own locals and can be taken in every state; a tick starts only at the
   loop's check, after the tick before it has ended. *)
SingleWriter ==
    /\ [][TrackerState' # TrackerState =>
            (loopPc' # loopPc /\ UNCHANGED <<readerVars, cleanVars>>)]_vars
    /\ [][readerVars' # readerVars =>
            UNCHANGED <<TrackerState, capVars, running, loopPc, ret, target, cleanVars>>]_vars
    /\ [][\A r \in Readers : ENABLED (ReadDx(r) \/ ReadDy(r))]_vars
    /\ [][ticks' # ticks => (loopPc = "check" /\ loopPc' = "read")]_vars

SingleWriterWitness ==
    /\ loopPc = "l105"
    /\ dx # 0
    /\ \E r \in Readers : rdPc[r] = "idle" /\ rdResult[r] = <<dx, dy>>

(* The tick of the specified pipeline (spec 4.1 - 4.3), applied to the
   tracker state st with capture outcome ok and detection t: push, then
   weightedAverage and observeRaw whether or not a sample was pushed, then
   advance. *)
SpecPush(h, x) ==
    IF x = None THEN h
    ELSE IF Len(h) >= history_size THEN Append(Tail(h), x) ELSE Append(h, x)

SpecObserve(h, raw) ==
    IF Len(h) < MinSamples THEN raw ELSE Average(h, WeightTable[Len(h)])

SpecTick(st, ok, t) ==
    IF ~ok THEN st
    ELSE LET hx == SpecPush(st[1], t[1])
             hy == SpecPush(st[2], t[2])
             rx == SpecObserve(hx, st[3])
             ry == SpecObserve(hy, st[4])
         IN  <<hx, hy, rx, ry, Interpolate(st[5], rx), Interpolate(st[6], ry)>>

(* C17: every tick of the code ends in the state the specified tick reaches
   from the same start, capture outcome and detection; between ticks raw_dx
   and raw_dy are the weighted averages of the current histories when these
   hold at least 5 samples, and 0.0 otherwise. *)
PipelineEquivalence ==
    /\ loopPc = "sleep" => TrackerState = SpecTick(snap, ret, target)
    /\ loopPc \notin {"l93", "l95", "l101"} =>
          /\ raw_dx = IF EnoughSamples(dx_history)
                      THEN Average(dx_history, WeightTable[Len(dx_history)]) ELSE 0
          /\ raw_dy = IF EnoughSamples(dy_history)
                      THEN Average(dy_history, WeightTable[Len(dy_history)]) ELSE 0

PipelineWitness ==
    /\ loopPc = "sleep"
    /\ ret
    /\ target = <<None, None>>
    /\ Len(dx_history) > MinSamples
    /\ dx_history[1] # dx_history[Len(dx_history)]
    /\ TrackerState # snap

SampleLo(c) == SeqMin(<<0>> \o [i \in 1..Len(pushed) |-> pushed[i][c]])
SampleHi(c) == SeqMax(<<0>> \o [i \in 1..Len(pushed) |-> pushed[i][c]])
(* C18: raw_dx and dx stay within the least interval that holds 0 and the dx
   of every sample pushed so far, raw_dy and dy within the one for the dy;
   hence within every interval [lo, hi] that holds 0 and the samples. *)
BoundedOutput ==
    /\ SampleLo(1) <= raw_dx /\ raw_dx <= SampleHi(1)
    /\ SampleLo(1) <= dx     /\ dx     <= SampleHi(1)
    /\ SampleLo(2) <= raw_dy /\ raw_dy <= SampleHi(2)
    /\ SampleLo(2) <= dy     /\ dy     <= SampleHi(2)

BoundedOutputWitness ==
    /\ loopPc = "sleep"
    /\ raw_dx = SampleHi(1)
    /\ raw_dy = SampleLo(2)
    /\ dx > 0 /\ dy < 0
    /\ Len(dx_history) = history_size

(* C19: between the two appends of a tick excepted, dx_history and
   dy_history have the same length and position i of both holds the dx and
   the dy of one detection. *)
ParallelAligned ==
    loopPc # "l93" =>
        LET k == Len(pushed)
            n == Len(dx_history)
        IN  /\ Len(dy_history) = n
            /\ n <= k
            /\ \A i \in 1..n : <<dx_history[i], dy_history[i]>> = pushed[k - n + i]

ParallelAlignedWitness ==
    /\ loopPc = "check"
    /\ Len(pushed) > history_size
    /\ Len(dx_history) = history_size
    /\ Len(dy_history) = history_size
    /\ dx_history[1] # dx_history[history_size]

====
